---- MODULE Spec2Model ----
(***************************************************************************)
(* BitTornado/subnetparse.py: the address codec (to_bitfield_ipv4,         *)
(* to_bitfield_ipv6) and the IP_List range store (append, includes,        *)
(* read_fieldlist, presets).                                               *)
(*                                                                         *)
(* A text is a sequence of one-character strings; a bit string is a        *)
(* sequence over {0, 1}.  A call that can raise returns a record           *)
(* [exc |-> <exception name or "">, v |-> <value>].                        *)
(***************************************************************************)
EXTENDS Integers, Sequences, FiniteSets, TLC

VARIABLES ipv4list, ipv6list, ipv4preset, last

vars == <<ipv4list, ipv6list, ipv4preset, last>>

----------------------------------------------------------------------------
(* Python string primitives *)

Ok(v) == [exc |-> "", v |-> v]

Raise(e) == [exc |-> e, v |-> <<>>]

Min(a, b) == IF a < b THEN a ELSE b

Max(a, b) == IF a > b THEN a ELSE b

Rep(x, n) == [i \in 1..Max(n, 0) |-> x]

(* s[:n] for an integer n: a negative n counts from the end *)
Take(s, n) == IF n >= 0 THEN SubSeq(s, 1, Min(n, Len(s)))
              ELSE SubSeq(s, 1, Max(Len(s) + n, 0))

(* s[n:] for n >= 0 *)
Drop(s, n) == SubSeq(s, Min(n, Len(s)) + 1, Len(s))

(* s[:depth] where depth is None (<<>>) or an integer (<<d>>) *)
Slice(s, depth) == IF depth = <<>> THEN s ELSE Take(s, depth[1])

startswith(s, p) == Len(p) <= Len(s) /\ SubSeq(s, 1, Len(p)) = p

(* s.find(c) >= 0 *)
Has(s, c) == \E i \in 1..Len(s) : s[i] = c

(* s.find(c), 1-based; 0 when absent *)
Find(s, c) == IF Has(s, c) THEN CHOOSE i \in 1..Len(s) : s[i] = c /\ \A j \in 1..(i-1) : s[j] # c
              ELSE 0

RECURSIVE Split(_, _)
Split(s, sep) == IF ~Has(s, sep) THEN <<s>>
                 ELSE <<SubSeq(s, 1, Find(s, sep) - 1)>> \o Split(Drop(s, Find(s, sep)), sep)

(* s.split(sep, 1) *)
SplitOnce(s, sep) == IF ~Has(s, sep) THEN <<s>>
                     ELSE <<SubSeq(s, 1, Find(s, sep) - 1), Drop(s, Find(s, sep))>>

RECURSIVE Concat(_)
Concat(ss) == IF ss = <<>> THEN <<>> ELSE Head(ss) \o Concat(Tail(ss))

(* Python's < on strings: lexicographic, a proper prefix sorting first *)
(* the length of the longest common prefix of a and b, between lo and hi *)
RECURSIVE CommonLen(_, _, _, _)
CommonLen(a, b, lo, hi) ==
    IF lo >= hi THEN lo
    ELSE LET mid == (lo + hi + 1) \div 2
         IN  IF SubSeq(a, 1, mid) = SubSeq(b, 1, mid) THEN CommonLen(a, b, mid, hi)
             ELSE CommonLen(a, b, lo, mid - 1)

Less(a, b) ==
    LET m == Min(Len(a), Len(b))
        k == CommonLen(a, b, 0, m)
    IN  IF k = m THEN Len(a) < Len(b) ELSE a[k + 1] < b[k + 1]

----------------------------------------------------------------------------
(* Address codec *)

DecDigits == <<"0", "1", "2", "3", "4", "5", "6", "7", "8", "9">>

HexDigits == DecDigits \o <<"a", "b", "c", "d", "e", "f">>

UpperHex == <<"A", "B", "C", "D", "E", "F">>

IndexOf(seq, c) == CHOOSE i \in 1..Len(seq) : seq[i] = c

IsDec(c) == \E i \in 1..10 : DecDigits[i] = c

_int_to_bitstring(x, bits) == [i \in 1..bits |-> (x \div (2 ^ (bits - i))) % 2]

hexbinmap == [c \in {HexDigits[i] : i \in 1..16} \cup {"x"} |->
                 IF c = "x" THEN <<0, 0, 0, 0>>
                 ELSE _int_to_bitstring(IndexOf(HexDigits, c) - 1, 4)]

charbinmap == [n \in 0..255 |-> _int_to_bitstring(n, 8)]

(* value of one digit character in the given base, -1 when it is none *)
DigitVal(c, base) ==
    IF IsDec(c) /\ IndexOf(DecDigits, c) - 1 < base THEN IndexOf(DecDigits, c) - 1
    ELSE IF base = 16 /\ (\E i \in 11..16 : HexDigits[i] = c) THEN IndexOf(HexDigits, c) - 1
    ELSE IF base = 16 /\ (\E i \in 1..6 : UpperHex[i] = c) THEN IndexOf(UpperHex, c) + 9
    ELSE -1

(* a 32-bit number kept as four bytes, most significant first: n*base + d, *)
(* <<>> on overflow past 32 bits                                            *)
MulAdd(n, base, d) ==
    LET b4 == n[4] * base + d
        b3 == n[3] * base + (b4 \div 256)
        b2 == n[2] * base + (b3 \div 256)
        b1 == n[1] * base + (b2 \div 256)
    IN  IF b1 > 255 THEN <<>> ELSE <<b1, b2 % 256, b3 % 256, b4 % 256>>

RECURSIVE ParseDigits(_, _, _)
ParseDigits(s, base, acc) ==
    IF acc = <<>> THEN <<>>
    ELSE IF s = <<>> THEN acc
    ELSE IF DigitVal(Head(s), base) < 0 THEN <<>>
    ELSE ParseDigits(Tail(s), base, MulAdd(acc, base, DigitVal(Head(s), base)))

(* one dot-separated number as the C library reads it (base by prefix); *)
(* four bytes, or <<>> when it is not a number                           *)
ParseNumber(s) ==
    IF s = <<>> THEN <<>>
    ELSE IF Len(s) >= 2 /\ s[1] = "0" /\ s[2] \in {"x", "X"}
         THEN IF Len(s) = 2 THEN <<>> ELSE ParseDigits(Drop(s, 2), 16, <<0, 0, 0, 0>>)
    ELSE IF s[1] = "0" THEN ParseDigits(s, 8, <<0, 0, 0, 0>>)
    ELSE ParseDigits(s, 10, <<0, 0, 0, 0>>)

(* the bytes of the numbers nums: all but the last one byte wide, the *)
(* last filling the remaining bytes                                    *)
AtonBytes(nums, n) ==
    IF n > 4 \/ (\E i \in 1..n : nums[i] = <<>>) THEN Raise("socket.error")
    ELSE IF \E i \in 1..(n-1) : SubSeq(nums[i], 1, 3) # <<0, 0, 0>> THEN Raise("socket.error")
    ELSE IF SubSeq(nums[n], 1, n - 1) # Rep(0, n - 1) THEN Raise("socket.error")
    ELSE Ok([i \in 1..(n-1) |-> nums[i][4]] \o SubSeq(nums[n], n, 4))

AtonParts(parts) == AtonBytes([i \in 1..Len(parts) |-> ParseNumber(parts[i])], Len(parts))

(* socket.inet_aton: 1 to 4 dot-separated numbers; text after a blank is ignored *)
inet_aton(ip) == AtonParts(Split(SplitOnce(ip, " ")[1], "."))

(* ''.join(charbinmap[ord(i)] for i in a), or ValueError for socket.error *)
BytesToBits(a) ==
    IF a.exc # "" THEN Raise("ValueError")
    ELSE Ok(Concat([i \in 1..Len(a.v) |-> charbinmap[a.v[i]]]))

to_bitfield_ipv4(ip) == BytesToBits(inet_aton(ip))

(* the ':' that marks the elided zero run inside the bit buffer b *)
Colon == 2

(* b += n + '0'*(32-len(n)) for an embedded IPv4 part *)
AddIpv4(st, v4) ==
    IF v4.exc # "" THEN [st EXCEPT !.exc = v4.exc]
    ELSE [st EXCEPT !.b = st.b \o v4.v \o Rep(0, 32 - Len(v4.v))]

(* b += ''.join(hexbinmap[i] for i in n) for a padded group n *)
AddGroup(st, n) ==
    IF \E i \in 1..Len(n) : n[i] \notin DOMAIN hexbinmap THEN [st EXCEPT !.exc = "KeyError"]
    ELSE [st EXCEPT !.b = st.b \o Concat([i \in 1..Len(n) |-> hexbinmap[n[i]]])]

(* one iteration of the loop over ip.split(':'); st = [b, doublecolon, exc] *)
Ipv6Part(st, n) ==
    IF st.exc # "" THEN st
    ELSE IF n = <<>>
         THEN IF st.doublecolon THEN [st EXCEPT !.exc = "ValueError"]
              ELSE [st EXCEPT !.doublecolon = TRUE, !.b = st.b \o <<Colon>>]
    ELSE IF Has(n, ".") THEN AddIpv4(st, to_bitfield_ipv4(n))
    ELSE AddGroup(st, Rep("x", 4 - Len(n)) \o n)

RECURSIVE Ipv6Loop(_, _)
Ipv6Loop(st, parts) == IF parts = <<>> THEN st
                       ELSE Ipv6Loop(Ipv6Part(st, Head(parts)), Tail(parts))

(* the boundary handling of a non-empty ip: the text that is split, or *)
(* ValueError for a single colon at either end                         *)
Boundary(ip, n) ==
    IF ip = <<":", ":">> THEN Ok(<<>>)
    ELSE IF Take(ip, 2) = <<":", ":">> THEN Ok(Drop(ip, 1))
    ELSE IF ip[1] = ":" THEN Raise("ValueError")
    ELSE IF Drop(ip, Max(n - 2, 0)) = <<":", ":">> THEN Ok(Take(ip, -1))
    ELSE IF ip[n] = ":" THEN Raise("ValueError")
    ELSE Ok(ip)

(* b[:pos] + '0'*(129-len(b)) + b[pos+1:] *)
Expand(b, pos) == SubSeq(b, 1, pos - 1) \o Rep(0, 129 - Len(b)) \o Drop(b, pos)

CheckSize(b) == IF Len(b) # 128 THEN Raise("ValueError") ELSE Ok(b)

(* what follows the loop: the elided run is filled in, the size checked *)
Finish(st) ==
    IF st.exc # "" THEN Raise(st.exc)
    ELSE IF st.doublecolon THEN CheckSize(Expand(st.b, Find(st.b, Colon)))
    ELSE CheckSize(st.b)

Encode6(t) ==
    IF t.exc # "" THEN Raise(t.exc)
    ELSE Finish(Ipv6Loop([b |-> <<>>, doublecolon |-> FALSE, exc |-> ""], Split(t.v, ":")))

to_bitfield_ipv6(ip) ==
    IF ip = <<>> THEN Raise("ValueError") ELSE Encode6(Boundary(ip, Len(ip)))

ipv4addrmask == Take(to_bitfield_ipv6(<<":", ":", "f", "f", "f", "f", ":", "0", ":", "0">>).v, 96)

----------------------------------------------------------------------------
(* IP_List: two lists of bit-string prefixes *)

RECURSIVE bisect(_, _, _, _)
bisect(a, x, lo, hi) ==
    IF lo >= hi THEN lo
    ELSE LET mid == (lo + hi) \div 2
         IN  IF Less(x, a[mid + 1]) THEN bisect(a, x, lo, mid)
             ELSE bisect(a, x, mid + 1, hi)

InsertAt(l, i, x) == SubSeq(l, 1, i) \o <<x>> \o SubSeq(l, i + 1, Len(l))

insort(l, x) == InsertAt(l, bisect(l, x, 0, Len(l)), x)

(* list.sort() *)
RECURSIVE sort(_)
sort(l) == IF l = <<>> THEN <<>>
           ELSE LET rest == sort(Tail(l))
                    k    == Cardinality({i \in 1..Len(rest) : Less(rest[i], Head(l))})
                IN  InsertAt(rest, k, Head(l))

(* an IPv4-mapped entry cut at depth, not at depth-96 *)
Entry6_DepthNotAdjusted(b, depth) ==
    IF b.exc # "" THEN Raise(b.exc)
    ELSE IF startswith(b.v, ipv4addrmask)
         THEN Ok([family |-> 4, bits |-> Slice(Drop(b.v, 96), depth)])
    ELSE Ok([family |-> 6, bits |-> Slice(b.v, depth)])

(* the entry of an address with a colon, b its encoding: the list it goes *)
(* to and the prefix stored                                                *)
Entry6(b, depth) ==
    IF b.exc # "" THEN Raise(b.exc)
    ELSE IF startswith(b.v, ipv4addrmask)
         THEN IF depth = <<>> THEN Raise("TypeError")
              ELSE Ok([family |-> 4, bits |-> Take(Drop(b.v, 96), depth[1] - 96)])
    ELSE Ok([family |-> 6, bits |-> Slice(b.v, depth)])

(* the entry of an address without a colon, b its encoding *)
Entry4(b, depth) ==
    IF b.exc # "" THEN Raise(b.exc)
    ELSE Ok([family |-> 4, bits |-> Slice(b.v, depth)])

(* what _append and append compute alike before they store *)
Entry(ip, depth) ==
    IF ~Has(ip, ":") THEN Entry4(to_bitfield_ipv4(ip), depth)
    ELSE Entry6(to_bitfield_ipv6(ip), depth)

Lists(l4, l6) == [ipv4list |-> l4, ipv6list |-> l6]

(* list.append of the entry e *)
StoreLast(ls, e) ==
    IF e.exc # "" THEN [exc |-> e.exc, v |-> ls]
    ELSE IF e.v.family = 4 THEN Ok(Lists(Append(ls.ipv4list, e.v.bits), ls.ipv6list))
    ELSE Ok(Lists(ls.ipv4list, Append(ls.ipv6list, e.v.bits)))

(* insort of the entry e *)
StoreSorted(ls, e) ==
    IF e.exc # "" THEN [exc |-> e.exc, v |-> ls]
    ELSE IF e.v.family = 4 THEN Ok(Lists(insort(ls.ipv4list, e.v.bits), ls.ipv6list))
    ELSE Ok(Lists(ls.ipv4list, insort(ls.ipv6list, e.v.bits)))

(* IP_List._append on the lists ls: [exc, v |-> the lists afterwards] *)
_append(ls, ip, depth) == StoreLast(ls, Entry(ip, depth))

(* IP_List.append on the lists ls *)
append(ls, ip, depth) == StoreSorted(ls, Entry(ip, depth))

(* the loop taking any candidate not above the query for a match *)
Scan_ByOrder(cands, b) ==
    IF cands = <<>> THEN FALSE
    ELSE ~Less(b, Head(cands))

(* the for loop of includes over the slice l[bisect(l,b)-1:] *)
RECURSIVE Scan(_, _)
Scan(cands, b) ==
    IF cands = <<>> THEN FALSE
    ELSE IF startswith(b, Head(cands)) THEN TRUE
    ELSE IF Less(b, Head(cands)) THEN FALSE
    ELSE Scan(Tail(cands), b)

(* l[start:] for any integer start *)
SliceFrom(l, start) ==
    IF start >= 0 THEN Drop(l, start) ELSE Drop(l, Max(Len(l) + start, 0))

(* b = b[96:] for an IPv4-mapped encoding *)
StripMask(b) ==
    IF b.exc # "" THEN b
    ELSE IF startswith(b.v, ipv4addrmask) THEN Ok(Drop(b.v, 96))
    ELSE b

(* the query's bit string after the IPv4-mapped marker is stripped *)
QueryBits(ip) ==
    IF ~Has(ip, ":") THEN to_bitfield_ipv4(ip) ELSE StripMask(to_bitfield_ipv6(ip))

(* the list of the family that b belongs to *)
FamilyList(ls, b) == IF Len(b) > 32 THEN ls.ipv6list ELSE ls.ipv4list

(* the scan of l from the insertion point of b itself *)
Lookup_FromInsertionPoint(l, b) == Scan(SliceFrom(l, bisect(l, b, 0, Len(l))), b)

(* the scan of l from one position before the insertion point of b *)
Lookup(l, b) == Scan(SliceFrom(l, bisect(l, b, 0, Len(l)) - 1), b)

Search(ls, b) ==
    IF b.exc # "" THEN [exc |-> b.exc, v |-> FALSE]
    ELSE Ok(Lookup(FamilyList(ls, b.v), b.v))

(* IP_List.includes: [exc, v |-> the boolean returned] *)
includes(ls, ip) ==
    IF ls.ipv4list = <<>> /\ ls.ipv6list = <<>> THEN Ok(FALSE)
    ELSE Search(ls, QueryBits(ip))

(* the steps of read_fieldlist on one line *)

Whitespace == {" ", "\t"}

RECURSIVE lstrip(_)
lstrip(s) == IF s # <<>> /\ Head(s) \in Whitespace THEN lstrip(Tail(s)) ELSE s

RECURSIVE rstrip(_)
rstrip(s) == IF s # <<>> /\ s[Len(s)] \in Whitespace THEN rstrip(SubSeq(s, 1, Len(s) - 1)) ELSE s

strip(s) == rstrip(lstrip(s))

(* str.expandtabs(): a tab becomes blanks up to the next multiple of 8 *)
RECURSIVE ExpandFrom(_, _)
ExpandFrom(s, col) ==
    IF s = <<>> THEN <<>>
    ELSE IF Head(s) = "\t" THEN Rep(" ", 8 - (col % 8)) \o ExpandFrom(Tail(s), col + 8 - (col % 8))
    ELSE <<Head(s)>> \o ExpandFrom(Tail(s), col + 1)

expandtabs(s) == ExpandFrom(s, 0)

RECURSIVE DecValue(_, _)
DecValue(s, acc) == IF s = <<>> THEN acc
                    ELSE DecValue(Tail(s), acc * 10 + (IndexOf(DecDigits, Head(s)) - 1))

Digits(digits, negative) ==
    IF digits = <<>> \/ (\E i \in 1..Len(digits) : ~IsDec(digits[i])) THEN Raise("ValueError")
    ELSE IF negative THEN Ok(0 - DecValue(digits, 0))
    ELSE Ok(DecValue(digits, 0))

Signed(t) ==
    IF t # <<>> /\ t[1] \in {"+", "-"} THEN Digits(Tail(t), t[1] = "-") ELSE Digits(t, FALSE)

(* int(text): optional sign, then decimal digits *)
int(s) == Signed(strip(s))

(* a line without its trailing text and comment *)
Cut(line) == SplitOnce(SplitOnce(line, " ")[1], "#")[1]

(* what is left of a line once the trailing text and comment are cut; *)
(* <<>> stands for a line that is skipped                              *)
Skip(line) == IF line = <<>> \/ line[1] = "#" THEN <<>> ELSE Cut(line)

Token(rawline) == Skip(expandtabs(strip(rawline)))

(* depth = int(depth); self._append(ip, depth); any exception drops the record *)
Record(ls, ip, depth) == IF depth.exc # "" THEN ls ELSE _append(ls, ip, <<depth.v>>).v

(* ip, depth = line.split('/'), or the whole line with depth None *)
Fields(ls, line, parts) ==
    IF Len(parts) = 2 THEN Record(ls, parts[1], int(parts[2]))
    ELSE _append(ls, line, <<>>).v

Parse(ls, line) == IF line = <<>> THEN ls ELSE Fields(ls, line, Split(line, "/"))

(* one pass of the while loop of read_fieldlist over the lists ls *)
ReadLine(ls, rawline) == Parse(ls, Token(rawline))

RECURSIVE ReadLines(_, _)
ReadLines(ls, lines) == IF lines = <<>> THEN ls
                        ELSE ReadLines(ReadLine(ls, Head(lines)), Tail(lines))

SortBoth(ls) == Lists(sort(ls.ipv4list), sort(ls.ipv6list))

(* read_fieldlist without the two sort() calls that end it *)
read_fieldlist_NoSort(ls, lines) == ReadLines(ls, lines)

(* IP_List.read_fieldlist on a readable file: the lists afterwards *)
read_fieldlist(ls, lines) == SortBoth(ReadLines(ls, lines))

(* a run of append calls; the first exception ends it *)
RECURSIVE AppendAll(_, _)
AppendAll(r, entries) ==
    IF entries = <<>> \/ r.exc # "" THEN r
    ELSE AppendAll(append(r.v, Head(entries)[1], Head(entries)[2]), Tail(entries))

(* IP_List.__init__ with an entry list: _append each, then sort *)
RECURSIVE AppendEach(_, _)
AppendEach(r, entrylist) ==
    IF entrylist = <<>> \/ r.exc # "" THEN r
    ELSE AppendEach(_append(r.v, Head(entrylist)[1], Head(entrylist)[2]), Tail(entrylist))

SortIfBuilt(r) == IF r.exc # "" THEN r ELSE Ok(SortBoth(r.v))

InitAll(entrylist) == SortIfBuilt(AppendEach(Ok(Lists(<<>>, <<>>)), entrylist))

----------------------------------------------------------------------------
(* Inputs *)

T_10_0_0_0 == <<"1", "0", ".", "0", ".", "0", ".", "0">>

T_10_255 == <<"1", "0", ".", "2", "5", "5", ".", "2", "5", "5", ".", "2", "5", "5">>

T_10_1_0_0 == <<"1", "0", ".", "1", ".", "0", ".", "0">>

T_11_0_0_0 == <<"1", "1", ".", "0", ".", "0", ".", "0">>

T_8_8_8_8 == <<"8", ".", "8", ".", "8", ".", "8">>

T_203 == <<"2", "0", "3", ".", "0", ".", "1", "1", "3", ".", "5">>

T_127_0_0_1 == <<"1", "2", "7", ".", "0", ".", "0", ".", "1">>

T_172_16 == <<"1", "7", "2", ".", "1", "6", ".", "0", ".", "0">>

T_192_168 == <<"1", "9", "2", ".", "1", "6", "8", ".", "0", ".", "0">>

T_169_254 == <<"1", "6", "9", ".", "2", "5", "4", ".", "0", ".", "0">>

T_m10 == <<":", ":", "f", "f", "f", "f", ":", "1", "0", ".", "0", ".", "0", ".", "0">>

T_m11 == <<":", ":", "f", "f", "f", "f", ":", "1", "1", ".", "0", ".", "0", ".", "0">>

T_mapped == <<":", ":", "f", "f", "f", "f", ":", "0", ":", "0">>

T_loop6 == <<":", ":", "1">>

T_fe80 == <<"f", "e", "8", "0", ":", ":">>

T_fe80_1 == <<"f", "e", "8", "0", ":", ":", "1">>

T_fec0 == <<"f", "e", "c", "0", ":", ":">>

T_bad == <<"n", "o", "t", "-", "a", "n", "-", "i", "p">>

L_ok24 == <<"1", "9", "2", ".", "1", "6", "8", ".", "1", ".", "0", "/", "2", "4">>

L_bad24 == <<"n", "o", "t", "-", "a", "n", "-", "i", "p", "/", "2", "4">>

L_m10 == <<":", ":", "f", "f", "f", "f", ":", "1", "0", ".", "0", ".", "0", ".", "0">>

L_tail == <<" ", "1", "0", ".", "0", ".", "0", ".", "0", "/", "8", "\t", "l", "a", "n", " ", "#", "x">>

L_comment == <<"#", " ", "1", "0", ".", "0", ".", "0", ".", "0", "/", "8">>

L_baddepth == <<"f", "e", "8", "0", ":", ":", "1", "/", "1", "x">>

DefaultDepth == 256

IntranetEntries ==
    << <<T_127_0_0_1, <<8>>>>, <<T_10_0_0_0, <<8>>>>, <<T_172_16, <<12>>>>,
       <<T_192_168, <<16>>>>, <<T_169_254, <<16>>>>, <<T_loop6, <<DefaultDepth>>>>,
       <<T_fe80, <<16>>>>, <<T_fec0, <<16>>>> >>

Ipv4Entries == << <<T_mapped, <<96>>>> >>

MaxEntries == 2

MaxLines == 2

AppendIps == {T_10_0_0_0, T_m10, T_fe80_1, T_bad}

AppendDepths == {8, 95, 104, DefaultDepth}

QueryIps == {T_8_8_8_8, T_10_255, T_11_0_0_0, T_m11, T_loop6, T_bad}

FileLines == {L_ok24, L_bad24, L_m10, L_tail, L_comment, L_baddepth}

Files == UNION {[1..n -> FileLines] : n \in 0..MaxLines}

EntryLists == { <<>>, << <<T_192_168, <<16>>>>, <<T_10_0_0_0, <<8>>>> >> }

----------------------------------------------------------------------------
(* The IP_List object and its operations.  last describes the latest call; *)
(* ipv4preset records that set_ipv4_addresses has been called.             *)

cur == Lists(ipv4list, ipv6list)

Size == Len(ipv4list) + Len(ipv6list)

Outcome(op, ip, depth, file, exc, ret, bits) ==
    [op |-> op, ip |-> ip, depth |-> depth, file |-> file, exc |-> exc, ret |-> ret, bits |-> bits]

(* A query changes neither list, so building after a query reaches the   *)
(* states that building before it reaches: the lists are built, then     *)
(* queried.  The lists stop growing at MaxEntries entries.               *)
Building == Size < MaxEntries /\ last.op # "includes"

Constructed(r) ==
    /\ r.exc = ""
    /\ ipv4list = r.v.ipv4list
    /\ ipv6list = r.v.ipv6list
    /\ ipv4preset = FALSE
    /\ last = Outcome("__init__", <<>>, <<>>, <<>>, "", FALSE, <<>>)

Init == \E entrylist \in EntryLists : Constructed(InitAll(entrylist))

(* the lists after a call that ended as r = [exc, v |-> lists] *)
Stored(r, op, ip, depth) ==
    /\ ipv4list' = r.v.ipv4list
    /\ ipv6list' = r.v.ipv6list
    /\ last' = Outcome(op, ip, depth, <<>>, r.exc, FALSE, <<>>)

CallAppend(ip, depth) ==
    /\ Building
    /\ Stored(append(cur, ip, <<depth>>), "append", ip, <<depth>>)
    /\ UNCHANGED ipv4preset

CallSetIntranetAddresses ==
    /\ Building
    /\ Stored(AppendAll(Ok(cur), IntranetEntries), "set_intranet_addresses", <<>>, <<>>)
    /\ UNCHANGED ipv4preset

CallSetIpv4Addresses ==
    /\ Building
    /\ Stored(AppendAll(Ok(cur), Ipv4Entries), "set_ipv4_addresses", <<>>, <<>>)
    /\ ipv4preset' = TRUE

Loaded(ls, file) ==
    /\ ipv4list' = ls.ipv4list
    /\ ipv6list' = ls.ipv6list
    /\ last' = Outcome("read_fieldlist", <<>>, <<>>, file, "", FALSE, <<>>)

(* a file has at most as many lines as the lists have room for entries *)
CallReadFieldlist(file) ==
    /\ Building
    /\ Len(file) <= MaxEntries - Size
    /\ Loaded(read_fieldlist(cur, file), file)
    /\ UNCHANGED ipv4preset

(* open() fails: nothing is read *)
CallReadFieldlistNoFile ==
    /\ Building
    /\ last' = Outcome("read_fieldlist", <<>>, <<>>, <<>>, "IOError", FALSE, <<>>)
    /\ UNCHANGED <<ipv4list, ipv6list, ipv4preset>>

Answered(r, ip) == last' = Outcome("includes", ip, <<>>, <<>>, r.exc, r.v, <<>>)

CallIncludes(ip) ==
    /\ Answered(includes(cur, ip), ip)
    /\ UNCHANGED <<ipv4list, ipv6list, ipv4preset>>

Next ==
    \/ \E ip \in AppendIps, depth \in AppendDepths : CallAppend(ip, depth)
    \/ CallSetIntranetAddresses
    \/ CallSetIpv4Addresses
    \/ \E file \in Files : CallReadFieldlist(file)
    \/ CallReadFieldlistNoFile
    \/ \E ip \in QueryIps : CallIncludes(ip)

Spec == Init /\ [][Next]_vars

Encoded(r, text) == last' = Outcome("to_bitfield_ipv6", text, <<>>, <<>>, r.exc, FALSE, r.v)

(* The codec applied to one text *)
CallToBitfieldIpv6(text) ==
    /\ Encoded(to_bitfield_ipv6(text), text)
    /\ UNCHANGED <<ipv4list, ipv6list, ipv4preset>>

----------------------------------------------------------------------------
(* Textual forms of an IPv6 address, given as its eight 16-bit groups *)

Nibbles(v) == <<v \div 4096, (v \div 256) % 16, (v \div 16) % 16, v % 16>>

(* the character of nibble d at position i of its group, in the given case *)
HexChar(d, i, case) ==
    IF d < 10 \/ case = "lower" \/ (case = "mixed" /\ i % 2 = 0) THEN HexDigits[d + 1]
    ELSE UpperHex[d - 9]

(* one group as text: four digits when pad, else without leading zeros *)
GroupText(v, pad, case) ==
    LET n     == Nibbles(v)
        first == IF pad THEN 1
                 ELSE IF n[1] # 0 THEN 1 ELSE IF n[2] # 0 THEN 2 ELSE IF n[3] # 0 THEN 3 ELSE 4
    IN  [i \in 1..(5 - first) |-> HexChar(n[first + i - 1], first + i - 1, case)]

RECURSIVE Join(_)
Join(parts) == IF parts = <<>> THEN <<>>
               ELSE IF Len(parts) = 1 THEN Head(parts)
               ELSE Head(parts) \o <<":">> \o Join(Tail(parts))

(* the text of addr; with elide, its first run of zero groups is written "::" *)
Render(addr, style) ==
    LET texts == [i \in 1..8 |-> GroupText(addr[i], style.pad, style.case)]
        zeros == {i \in 1..8 : addr[i] = 0}
        from  == CHOOSE i \in zeros : \A j \in zeros : i <= j
        upto  == CHOOSE i \in from..8 : (\A j \in from..i : addr[j] = 0) /\ (i = 8 \/ addr[i + 1] # 0)
    IN  IF style.elide /\ zeros # {}
        THEN Join(SubSeq(texts, 1, from - 1)) \o <<":", ":">> \o Join(SubSeq(texts, upto + 1, 8))
        ELSE Join(texts)

AddrBits(addr) == Concat([i \in 1..8 |-> _int_to_bitstring(addr[i], 16)])

Styles == [elide : BOOLEAN, pad : BOOLEAN, case : {"lower", "upper", "mixed"}]

Addrs6 == { <<a, 0, 0, 0, 0, b, 0, c>> : a \in {0, 65152}, b \in {0, 65535}, c \in {1, 171, 43981} }

NextCodec == \E addr \in Addrs6, style \in Styles : CallToBitfieldIpv6(Render(addr, style))

SpecCodec == Init /\ [][NextCodec]_vars

----------------------------------------------------------------------------
(* Properties *)

WellFormed(ip) == IF Has(ip, ":") THEN to_bitfield_ipv6(ip).exc = "" ELSE to_bitfield_ipv4(ip).exc = ""

IsMapped(ip) == /\ Has(ip, ":")
                /\ to_bitfield_ipv6(ip).exc = ""
                /\ startswith(to_bitfield_ipv6(ip).v, ipv4addrmask)

(* "::ffff:" in front of a dotted quad *)
Mapped(a) == <<":", ":", "f", "f", "f", "f", ":">> \o a

DottedQuads == {T_8_8_8_8, T_10_0_0_0, T_10_1_0_0, T_10_255, T_11_0_0_0, T_127_0_0_1, T_203}

Queries == DottedQuads \cup {T_m11, Mapped(T_10_255), T_loop6, T_fe80_1, T_fec0}

(* the linear scan: some stored prefix of the family starts the query *)
NaiveIncludes(ls, x) ==
    LET b == QueryBits(x).v
        l == FamilyList(ls, b)
    IN  \E i \in 1..Len(l) : startswith(b, l[i])

NonOverlapping(l) == \A i, j \in 1..Len(l) : i # j => ~startswith(l[j], l[i])

Sorted(l) == \A i \in 1..(Len(l) - 1) : ~Less(l[i + 1], l[i])

(* C1: when no stored prefix is a prefix of another, includes(x) answers *)
(* what the linear scan over the stored prefixes answers, for every      *)
(* well-formed query x.                                                  *)
C1_IncludesIsLinearScan ==
    (NonOverlapping(ipv4list) /\ NonOverlapping(ipv6list)) =>
        \A x \in Queries : includes(cur, x) = Ok(NaiveIncludes(cur, x))

C1_Witness ==
    /\ last.op = "includes" /\ last.ip = T_10_255 /\ last.exc = "" /\ last.ret = TRUE
    /\ Len(ipv4list) >= 2
    /\ NonOverlapping(ipv4list) /\ NonOverlapping(ipv6list)

(* C2: with overlapping stored prefixes, includes(x) is true for every x *)
(* covered by a stored prefix that is a proper prefix of another entry.  *)
C2_BroaderPrefixFound ==
    (last.op = "includes" /\ last.exc = "") =>
        LET b == QueryBits(last.ip).v
            l == FamilyList(cur, b)
        IN  (\E i, j \in 1..Len(l) : /\ Len(l[i]) < Len(l[j])
                                     /\ startswith(l[j], l[i])
                                     /\ startswith(b, l[i]))
            => last.ret = TRUE

(* C3: once set_ipv4_addresses has been called, includes(a) is true for *)
(* every IPv4 address a, plain or IPv4-mapped.                          *)
C3_PresetCoversIpv4 ==
    (ipv4preset /\ last.op = "includes" /\ WellFormed(last.ip) /\ Len(QueryBits(last.ip).v) = 32)
        => (last.exc = "" /\ last.ret = TRUE)

(* C4: both lists are in ascending order after construction and after *)
(* every call.                                                        *)
C4_ListsSorted == Sorted(ipv4list) /\ Sorted(ipv6list)

C4_Witness ==
    /\ last.op = "read_fieldlist" /\ last.file = <<L_ok24, L_tail>>
    /\ Len(ipv4list) >= 2

(* C5: append of an IPv4-mapped address with depth below 96 raises a *)
(* format error and changes neither list.                            *)
C5_NegativeDepthRejected ==
    [][(last'.op = "append" /\ IsMapped(last'.ip) /\ last'.depth[1] < 96)
          => (last'.exc = "ValueError" /\ UNCHANGED <<ipv4list, ipv6list>>)]_vars

(* the record of a line that parses: its address is well formed and its *)
(* depth, when there is one, is an integer                              *)
LineParts(rawline) == Split(Token(rawline), "/")

LineIp(rawline) == IF Len(LineParts(rawline)) = 2 THEN LineParts(rawline)[1] ELSE Token(rawline)

LineHasDepth(rawline) == Len(LineParts(rawline)) = 2

Parsable(rawline) ==
    /\ Token(rawline) # <<>>
    /\ WellFormed(LineIp(rawline))
    /\ LineHasDepth(rawline) => int(LineParts(rawline)[2]).exc = ""

(* the entry append stores for the record: the given depth, or append's default *)
LineEntry(rawline) ==
    Entry(LineIp(rawline),
          IF LineHasDepth(rawline) THEN <<int(LineParts(rawline)[2]).v>> ELSE <<DefaultDepth>>)

RECURSIVE EntriesOf(_, _)
EntriesOf(lines, family) ==
    IF lines = <<>> THEN <<>>
    ELSE (IF Parsable(Head(lines)) /\ LineEntry(Head(lines)).exc = ""
             /\ LineEntry(Head(lines)).v.family = family
          THEN <<LineEntry(Head(lines)).v.bits>> ELSE <<>>) \o EntriesOf(Tail(lines), family)

(* C6: a load never aborts on a line's content, and leaves the lists as  *)
(* the sorted union of the old entries and those of the parsable lines.  *)
C6_LoadIsSortedUnion ==
    [][(last'.op = "read_fieldlist" /\ last'.exc # "IOError")
          => /\ last'.exc = ""
             /\ ipv4list' = sort(ipv4list \o EntriesOf(last'.file, 4))
             /\ ipv6list' = sort(ipv6list \o EntriesOf(last'.file, 6))]_vars

(* C7: a record that is a bare well-formed address stores what append of *)
(* that address with its default depth stores.                          *)
C7_BareAddressLikeAppend ==
    [][(/\ last'.op = "read_fieldlist" /\ last'.exc = ""
        /\ Len(last'.file) = 1
        /\ WellFormed(last'.file[1]))
          => /\ ipv4list' = append(cur, last'.file[1], <<DefaultDepth>>).v.ipv4list
             /\ ipv6list' = append(cur, last'.file[1], <<DefaultDepth>>).v.ipv6list]_vars

(* C8: a dotted quad a and "::ffff:"a are interchangeable: append with *)
(* depth d, 96+d for the mapped form, gives the same lists, and        *)
(* includes gives the same answer.                                      *)
C8_EntriesAgree ==
    \A a \in DottedQuads, d \in 0..32 : Entry(Mapped(a), <<96 + d>>) = Entry(a, <<d>>)

C8_MappedInterchangeable ==
    /\ C8_EntriesAgree
    /\ \A a \in {T_10_0_0_0, T_203} :
          /\ \A d \in {0, 8, 32} : append(cur, Mapped(a), <<96 + d>>) = append(cur, a, <<d>>)
          /\ includes(cur, Mapped(a)) = includes(cur, a)

C8_Witness ==
    /\ last.op = "append" /\ last.ip = T_m10 /\ last.depth = <<104>> /\ last.exc = ""
    /\ \E i \in 1..Len(ipv4list) : ipv4list[i] = Take(to_bitfield_ipv4(T_10_0_0_0).v, 8)

(* C9: every textual form of an address (with or without "::", with or *)
(* without leading zeros, in lower, upper or mixed case) encodes, and   *)
(* to the 128 bits of the address.                                      *)
C9_EncodingDeterministic ==
    last.op = "to_bitfield_ipv6" =>
        \A addr \in Addrs6, style \in Styles :
            Render(addr, style) = last.ip => (last.exc = "" /\ last.bits = AddrBits(addr))

(* C10: includes(x) is true only if some stored prefix of x's family *)
(* starts x.                                                         *)
C10_NoFalsePositive ==
    \A x \in Queries : includes(cur, x).v = TRUE => NaiveIncludes(cur, x)

(* the query sorts before every entry: the scan starts at index -1 *)
C10_Witness ==
    /\ last.op = "includes" /\ last.ip = T_8_8_8_8 /\ last.exc = "" /\ last.ret = FALSE
    /\ Len(ipv4list) >= 2
    /\ bisect(ipv4list, to_bitfield_ipv4(T_8_8_8_8).v, 0, Len(ipv4list)) = 0

====
